---------------------------- MODULE Spec2Model ----------------------------
(***************************************************************************)
(* Model of js/src/utils/index.ts: the four utility helpers sleep,         *)
(* generateId, formatState and logWithTimestamp, together with the parts   *)
(* of the JavaScript runtime they wrap (the timer queue behind setTimeout, *)
(* Number.prototype.toString(36), JSON.stringify, Date.prototype           *)
(* .toISOString and the console).                                          *)
(*                                                                         *)
(* Strings are sequences of one-character strings.  JavaScript values are  *)
(* records tagged by t; values with the same tag carry the same kind of    *)
(* payload v.                                                              *)
(***************************************************************************)
EXTENDS Integers, Sequences, FiniteSets, TLC

VARIABLES
    boot,       \* the clock (ms since the epoch) when the process started
    clock,      \* the clock now; it never decreases
    console,    \* the console output: one entry (the argument list) per console.log call
    logCalls,   \* history of the calls of logWithTimestamp (observation only)
    timers,     \* the runtime's timer queue: the pending setTimeout callbacks
    promises,   \* the promises sleep has returned, in call order
    tasks,      \* the asynchronous callers and where each is
    idCalls,    \* history of the calls of generateId (observation only)
    fmtCalls    \* the call of formatState: its argument, before and after, and its outcome

vars == <<boot, clock, console, logCalls, timers, promises, tasks, idCalls, fmtCalls>>

----------------------------------------------------------------------------
(* Bounds of the model *)

MaxClock == 3      \* how far the clock runs past boot (ms)
MaxLog == 2        \* calls of logWithTimestamp in one behaviour
MaxSleeps == 2     \* calls of sleep in one behaviour
MaxIds == 2        \* calls of generateId in one behaviour
MaxDigits == 10    \* base-36 digits toString(36) prints after the point
MaxLen == 2        \* elements of an array, properties of an object
MaxOps == 4        \* helper calls in one behaviour of the joint specification

----------------------------------------------------------------------------
(* Strings and small helpers *)

Min(a, b) == IF a < b THEN a ELSE b

DigitChars == <<"0", "1", "2", "3", "4", "5", "6", "7", "8", "9">>

LowerChars == <<"a", "b", "c", "d", "e", "f", "g", "h", "i", "j", "k", "l", "m",
                "n", "o", "p", "q", "r", "s", "t", "u", "v", "w", "x", "y", "z">>

RECURSIVE NatToStr(_)
NatToStr(n) == IF n < 10 THEN <<DigitChars[n + 1]>>
               ELSE NatToStr(n \div 10) \o <<DigitChars[(n % 10) + 1]>>

\* Number::toString for the integers: a minus sign, then the decimal digits.
IntToStr(n) == IF n < 0 THEN <<"-">> \o NatToStr(-n) ELSE NatToStr(n)

\* String.prototype.padStart(w, "0") of a natural number's digits.
RECURSIVE PadStart(_, _)
PadStart(s, w) == IF Len(s) >= w THEN s ELSE PadStart(<<"0">> \o s, w)

----------------------------------------------------------------------------
(* JavaScript values *)

Undefined == [t |-> "undefined"]
Null == [t |-> "null"]
NaN == [t |-> "nan"]
BigInt == [t |-> "bigint"]
SelfRef == [t |-> "self"]     \* a reference back to the enclosing root object
Bool(b) == [t |-> "bool", v |-> b]
Num(n) == [t |-> "num", v |-> n]       \* the integer n (0 is +0)
NegZero == [t |-> "negzero"]           \* the number -0
Str(s) == [t |-> "str", v |-> s]
Arr(s) == [t |-> "arr", v |-> s]
Obj(s) == [t |-> "obj", v |-> s]   \* << <<key, value>>, ... >>, keys distinct, in property order

\* ToBoolean, as the condition of an if statement applies it.
ToBoolean(x) ==
    CASE x.t \in {"undefined", "null", "nan", "negzero"} -> FALSE
      [] x.t = "bool" -> x.v
      [] x.t = "num" -> x.v # 0
      [] x.t = "str" -> x.v # <<>>
      [] OTHER -> TRUE

----------------------------------------------------------------------------
(* Date.prototype.toISOString: YYYY-MM-DDTHH:mm:ss.sssZ.  The clock of the  *)
(* model stays within January 1970, so the year and month are fixed and    *)
(* the day of the month is 1 + whole days since the epoch.                 *)

toISOString(ms) ==
    <<"1", "9", "7", "0", "-", "0", "1", "-">>
        \o PadStart(NatToStr(1 + (ms \div 86400000)), 2) \o <<"T">>
        \o PadStart(NatToStr((ms \div 3600000) % 24), 2) \o <<":">>
        \o PadStart(NatToStr((ms \div 60000) % 60), 2) \o <<":">>
        \o PadStart(NatToStr((ms \div 1000) % 60), 2) \o <<".">>
        \o PadStart(NatToStr(ms % 1000), 3) \o <<"Z">>

----------------------------------------------------------------------------
(* The clock *)

\* Process start times: the epoch, and instants just before the millisecond,
\* second, minute, hour and day fields of the timestamp roll over.
StartTimes == {0, 8, 998, 59998, 3599998, 86399998}

Tick ==
    /\ clock - boot < MaxClock
    /\ clock' = clock + 1
    /\ UNCHANGED <<boot, console, logCalls, timers, promises, tasks, idCalls, fmtCalls>>

----------------------------------------------------------------------------
(* logWithTimestamp *)

Tasks == {1, 2}

\* A caller that has awaited nothing yet.
FreshTask == [pc |-> "ready", awaiting |-> 0, slept |-> 0]

\* The time of the latest suspension of caller k: a value read before the
\* call, where the code reads the clock inside the call.
timestampBeforeAwait(k) ==
    toISOString(IF tasks[k].slept = 0 THEN boot ELSE promises[tasks[k].slept].calledAt)

\* The time the module was loaded, where the code reads the clock in the call.
timestampAtLoad(k) == toISOString(boot)

\* const timestamp = new Date().toISOString(), evaluated in the call made by k.
timestamp(k) == toISOString(clock)

\* The argument list the call hands to console.log; the branch is taken on
\* ToBoolean(data).
logEntry(ts, message, data) ==
    IF ToBoolean(data)
    THEN <<Str(<<"[">> \o ts \o <<"]", " ">> \o message \o <<":">>), data>>
    ELSE <<Str(<<"[">> \o ts \o <<"]", " ">> \o message)>>

\* The output cleared before the entry is written.
consoleLogCleared(entry) == console' = <<entry>>

\* console.log(...entry): one entry appended to the process-wide output.
consoleLog(entry) == console' = Append(console, entry)

\* logWithTimestamp(...args) called by k; args is <<message>> or <<message, data>>.
\* A parameter with no argument is undefined.
logWithTimestamp(k, args) ==
    LET message == args[1]
        data == IF Len(args) >= 2 THEN args[2] ELSE Undefined
    IN  /\ Len(logCalls) < MaxLog
        /\ consoleLog(logEntry(timestamp(k), message, data))
        /\ logCalls' = Append(logCalls, [caller |-> k, args |-> args, now |-> clock, outcome |-> "return"])
        /\ UNCHANGED <<boot, clock, timers, promises, tasks, idCalls, fmtCalls>>

Messages == {<<"o", "k">>, <<>>}

\* Values handed over as data: the falsy ones and some truthy ones.
LogData == {Null, Bool(FALSE), Num(0), Num(7), Str(<<>>), Obj(<<>>)}

LogArgs == {<<m>> : m \in Messages} \cup {<<m, d>> : m \in Messages, d \in LogData}

MainLog == \E args \in LogArgs : logWithTimestamp(1, args)

----------------------------------------------------------------------------
(* sleep: new Promise((resolve) => setTimeout(resolve, ms))                 *)
(*                                                                         *)
(* ms is a JavaScript number.  The model keeps the non-negative integers    *)
(* among them in two limbs, ms = hi * 2^31 + lo with 0 <= lo < 2^31, so    *)
(* that values above the runtime's largest timer delay, 2^31 - 1, are      *)
(* present: ms exceeds that delay exactly when hi > 0.                     *)

Ms(hi, lo) == [hi |-> hi, lo |-> lo]

MsLeq(a, b) == a.hi < b.hi \/ (a.hi = b.hi /\ a.lo <= b.lo)

\* setTimeout's delay: a delay below 1 or above 2^31 - 1 is set to 1.
timeoutDelay(ms) == IF ms.hi = 0 /\ ms.lo >= 1 THEN ms.lo ELSE 1

\* A callback that calls nothing: the promise is left as it is.
timerCallbackNoop(p) == promises

\* The timer's callback is resolve: it resolves promise p.  Resolving a
\* promise that is already resolved changes nothing but the count of calls.
timerCallback(p) ==
    [promises EXCEPT ![p] =
        [@ EXCEPT !.state = "resolved",
                  !.resolveCalls = @ + 1,
                  !.settledAt = IF promises[p].state = "pending" THEN clock ELSE @]]

\* await sleep(ms) in caller k: the promise is created pending, its timer is
\* queued, and k is suspended until the promise is resolved.  The guard on
\* the delay keeps every queued timer within the time the model runs to.
sleep(k, ms) ==
    LET p == Len(promises) + 1
    IN  /\ tasks[k].pc = "ready"
        /\ Len(promises) < MaxSleeps
        /\ timeoutDelay(ms) <= boot + MaxClock - clock
        /\ promises' = Append(promises, [ms |-> ms, calledAt |-> clock, state |-> "pending",
                                         resolveCalls |-> 0, settledAt |-> 0])
        /\ timers' = timers \cup {[promise |-> p, due |-> clock + timeoutDelay(ms)]}
        /\ tasks' = [tasks EXCEPT ![k] = [pc |-> "awaiting", awaiting |-> p, slept |-> p]]
        /\ UNCHANGED <<boot, clock, console, logCalls, idCalls, fmtCalls>>

\* The event loop runs a timer that is due: once, after which it is gone
\* from the queue.  The callers awaiting a resolved promise are resumed.
TimerFire ==
    \E tm \in timers :
        /\ tm.due <= clock
        /\ timers' = timers \ {tm}
        /\ promises' = timerCallback(tm.promise)
        /\ tasks' = [k \in Tasks |->
                        IF tasks[k].pc = "awaiting" /\ promises'[tasks[k].awaiting].state = "resolved"
                        THEN [tasks[k] EXCEPT !.pc = "ready", !.awaiting = 0]
                        ELSE tasks[k]]
        /\ UNCHANGED <<boot, clock, console, logCalls, idCalls, fmtCalls>>

SleepArgs == {Ms(0, 0), Ms(0, 1), Ms(0, 2), Ms(0, 3), Ms(1, 0), Ms(2, 5)}

NapArgs == {Ms(0, 1), Ms(0, 3)}

TaskSleep == \E k \in Tasks, ms \in SleepArgs : sleep(k, ms)

TaskNap == \E k \in Tasks, ms \in NapArgs : sleep(k, ms)

TaskLogArgs == {<<(<<"o", "k">>), Num(7)>>}

\* A caller that is running (not suspended at an await) logs.
TaskLog == \E k \in Tasks, args \in TaskLogArgs : tasks[k].pc = "ready" /\ logWithTimestamp(k, args)

----------------------------------------------------------------------------
(* generateId: Math.random().toString(36).substr(2, 9)                      *)
(*                                                                         *)
(* A draw of Math.random(), a number in [0, 1), is kept as the base-36     *)
(* digits toString(36) prints after the point: none for 0, otherwise at    *)
(* least one, the last of them not 0.                                      *)

Radix == 36       \* toString(36)
IdStart == 2      \* substr(2, 9): from the third character on
IdLength == 9     \* substr(2, 9): at most nine characters

\* The digits of radix 36 in order: 0-9, then a-z.
Radix36Chars == SubSeq(DigitChars \o LowerChars, 1, Radix)

\* Number.prototype.toString(36) of a number in [0, 1): "0" for 0, else "0."
\* and the digits of the fraction; no sign and no exponent.
toString36(draw) ==
    IF draw = <<>> THEN <<"0">>
    ELSE <<"0", ".">> \o [i \in 1 .. Len(draw) |-> Radix36Chars[draw[i] + 1]]

\* String.prototype.substr(start, length), 0 <= start, 0 <= length.
substr(s, start, length) == SubSeq(s, start + 1, Min(Len(s), start + length))

\* The identifier with the number of earlier calls appended.
generateIdCounted(draw) == substr(toString36(draw), IdStart, IdLength) \o NatToStr(Len(idCalls))

\* The identifier cut from the second character on, not the third.
generateIdFromPoint(draw) == substr(toString36(draw), IdStart - 1, IdLength)

generateId(draw) == substr(toString36(draw), IdStart, IdLength)

\* A call of generateId whose Math.random() returns draw.
GenerateIdCall(draw) ==
    /\ Len(idCalls) < MaxIds
    /\ idCalls' = Append(idCalls, [draw |-> draw, id |-> generateId(draw), outcome |-> "return"])
    /\ UNCHANGED <<boot, clock, console, logCalls, timers, promises, tasks, fmtCalls>>

\* Draws: 0; one digit; small numbers (zeros, then a digit); one digit repeated.
Draws ==
    {<<>>}
        \cup {<<d>> : d \in 1 .. (Radix - 1)}
        \cup {[i \in 1 .. n |-> IF i = n THEN d ELSE 0] : n \in 2 .. MaxDigits, d \in {1, Radix - 1}}
        \cup {[i \in 1 .. n |-> d] : n \in 2 .. MaxDigits, d \in {9, 10, Radix - 1}}

GenerateId == \E draw \in Draws : GenerateIdCall(draw)

----------------------------------------------------------------------------
(* formatState: JSON.stringify(state, null, 2) *)

\* QuoteJSONString: the characters of the model that need an escape are the
\* double quote, the backslash and the line feed.
RECURSIVE EscapeChars(_)
EscapeChars(s) ==
    IF s = <<>> THEN <<>>
    ELSE (CASE Head(s) = "\"" -> <<"\\", "\"">>
            [] Head(s) = "\\" -> <<"\\", "\\">>
            [] Head(s) = "\n" -> <<"\\", "n">>
            [] OTHER -> <<Head(s)>>) \o EscapeChars(Tail(s))

QuoteJSONString(s) == <<"\"">> \o EscapeChars(s) \o <<"\"">>

IndentWidth == 2  \* JSON.stringify(state, null, 2)

\* The indentation at nesting depth: depth times the gap of IndentWidth spaces.
Indentation(depth) == [i \in 1 .. (depth * IndentWidth) |-> " "]

\* JSON.stringify throws a TypeError on a BigInt and on a cyclic structure,
\* wherever in the value it meets them.
RECURSIVE StringifyThrows(_)
StringifyThrows(x) ==
    CASE x.t \in {"bigint", "self"} -> TRUE
      [] x.t = "arr" -> \E i \in 1 .. Len(x.v) : StringifyThrows(x.v[i])
      [] x.t = "obj" -> \E i \in 1 .. Len(x.v) : StringifyThrows(x.v[i][2])
      [] OTHER -> FALSE

\* The properties JSON.stringify writes: those whose value is not undefined.
RECURSIVE DefinedProperties(_)
DefinedProperties(props) ==
    IF props = <<>> THEN <<>>
    ELSE IF Head(props)[2].t = "undefined" THEN DefinedProperties(Tail(props))
    ELSE <<Head(props)>> \o DefinedProperties(Tail(props))

\* SerializeJSONProperty for a value that is not undefined and does not
\* throw.  An undefined array element is written as null; NaN is written
\* as null, -0 as 0.
RECURSIVE SerializeJSONProperty(_, _), SerializeJSONArray(_, _), SerializeJSONObject(_, _)
SerializeJSONProperty(x, depth) ==
    CASE x.t \in {"null", "nan", "undefined"} -> <<"n", "u", "l", "l">>
      [] x.t = "bool" -> IF x.v THEN <<"t", "r", "u", "e">> ELSE <<"f", "a", "l", "s", "e">>
      [] x.t = "num" -> IntToStr(x.v)
      [] x.t = "negzero" -> <<"0">>
      [] x.t = "str" -> QuoteJSONString(x.v)
      [] x.t = "arr" -> IF x.v = <<>> THEN <<"[", "]">>
                        ELSE <<"[", "\n">> \o SerializeJSONArray(x.v, depth + 1)
                                 \o <<"\n">> \o Indentation(depth) \o <<"]">>
      [] x.t = "obj" -> IF DefinedProperties(x.v) = <<>> THEN <<"{", "}">>
                        ELSE <<"{", "\n">> \o SerializeJSONObject(DefinedProperties(x.v), depth + 1)
                                 \o <<"\n">> \o Indentation(depth) \o <<"}">>

\* The elements of a non-empty array, each on its own indented line.
SerializeJSONArray(items, depth) ==
    Indentation(depth) \o SerializeJSONProperty(Head(items), depth)
        \o (IF Tail(items) = <<>> THEN <<>>
            ELSE <<",", "\n">> \o SerializeJSONArray(Tail(items), depth))

\* The properties of an object, each on its own indented line: "key": value.
SerializeJSONObject(props, depth) ==
    Indentation(depth) \o QuoteJSONString(Head(props)[1]) \o <<":", " ">>
        \o SerializeJSONProperty(Head(props)[2], depth)
        \o (IF Tail(props) = <<>> THEN <<>>
            ELSE <<",", "\n">> \o SerializeJSONObject(Tail(props), depth))

\* The value with every object emptied of its properties.
RECURSIVE StripProperties(_)
StripProperties(x) ==
    CASE x.t = "arr" -> Arr([i \in 1 .. Len(x.v) |-> StripProperties(x.v[i])])
      [] x.t = "obj" -> Obj(<<>>)
      [] OTHER -> x

\* JSON.stringify(state, [], 2): with an empty array as the replacer no
\* property of any object is written.
formatStateEmptyReplacer(state) ==
    IF StringifyThrows(StripProperties(state)) THEN [outcome |-> "throw", result |-> Undefined]
    ELSE IF state.t = "undefined" THEN [outcome |-> "return", result |-> Undefined]
    ELSE [outcome |-> "return", result |-> Str(SerializeJSONProperty(StripProperties(state), 0))]

\* formatState(state): the text, or undefined for undefined, or a TypeError.
formatState(state) ==
    IF StringifyThrows(state) THEN [outcome |-> "throw", result |-> Undefined]
    ELSE IF state.t = "undefined" THEN [outcome |-> "return", result |-> Undefined]
    ELSE [outcome |-> "return", result |-> Str(SerializeJSONProperty(state, 0))]

\* A call of formatState, one in a behaviour; the value passed is read,
\* never written.
FormatStateCall(state) ==
    /\ fmtCalls = <<>>
    /\ fmtCalls' = <<[arg |-> state, argAfter |-> state] @@ formatState(state)>>
    /\ UNCHANGED <<boot, clock, console, logCalls, timers, promises, tasks, idCalls>>

\* Values passed as state.
SeqsUpTo(S, n) == UNION {[1 .. m -> S] : m \in 0 .. n}

DistinctKeys(props) == \A i, j \in 1 .. Len(props) : i # j => props[i][1] # props[j][1]

JsonAtoms == {Null, Bool(TRUE), Bool(FALSE), Num(0), NegZero, Num(-1), Num(12), Str(<<>>), Str(<<"a">>),
              Str(<<"\"">>), Str(<<"\\">>), Str(<<"\n">>), Str(<<"a", "\\", "n", "\"">>)}

Atoms == JsonAtoms \cup {Undefined, NaN, BigInt}

PropertyValues == {Null, Num(-1), Str(<<"\"", "a">>), Undefined, BigInt}

Keys == {<<"a">>, <<"\"", "\\">>, <<>>}

Nested == {Null, Arr(<<>>), Obj(<<>>), Arr(<<Num(0), Undefined>>), Arr(<<Arr(<<Bool(TRUE)>>)>>),
           Obj(<< <<(<<"a">>), Str(<<"a">>)>> >>), SelfRef}

Flat == {Arr(s) : s \in SeqsUpTo(Atoms, MaxLen)}
           \cup {Obj(s) : s \in {q \in SeqsUpTo(Keys \X PropertyValues, MaxLen) : DistinctKeys(q)}}

Deep == {Arr(s) : s \in SeqsUpTo(Nested, MaxLen)}
           \cup {Obj(s) : s \in {q \in SeqsUpTo({<<"a">>, <<"b">>} \X Nested, MaxLen) : DistinctKeys(q)}}

States == Atoms \cup Flat \cup Deep

FormatState == \E state \in States : FormatStateCall(state)

----------------------------------------------------------------------------
Init ==
    /\ boot \in StartTimes
    /\ clock = boot
    /\ console = <<>>
    /\ logCalls = <<>>
    /\ timers = {}
    /\ promises = <<>>
    /\ tasks = [k \in Tasks |-> FreshTask]
    /\ idCalls = <<>>
    /\ fmtCalls = <<>>

NextLog == Tick \/ MainLog

SpecLog == Init /\ [][NextLog]_vars

InitAtEpoch == Init /\ boot = 0

\* A start just before the millisecond field of the timestamp rolls over.
InitTasks == Init /\ boot = 998

NextSleep == Tick \/ TaskSleep \/ TimerFire

SpecSleep == InitAtEpoch /\ [][NextSleep]_vars

\* The clock advances and the event loop serves its timer queue.
SpecSleepLive == SpecSleep /\ WF_vars(Tick) /\ WF_vars(TimerFire)

NextTasks == Tick \/ TaskLog \/ TaskNap \/ TimerFire

SpecTasks == InitTasks /\ [][NextTasks]_vars

NextId == GenerateId

SpecId == InitAtEpoch /\ [][NextId]_vars

NextFmt == FormatState

SpecFmt == InitAtEpoch /\ [][NextFmt]_vars

(* The four helpers together, called by the two callers in any order at  *)
(* one instant of the clock.                                               *)

Calls == Len(logCalls) + Len(promises) + Len(idCalls) + Len(fmtCalls)

JointLogArgs == {<<(<<"o", "k">>)>>, <<(<<"o", "k">>), Num(0)>>, <<(<<"o", "k">>), Obj(<<>>)>>}

JointDraws == {<<>>, <<Radix - 1>>, [i \in 1 .. MaxDigits |-> 10]}

JointStates == {Num(12), Arr(<<Num(0), Undefined>>), Obj(<< <<(<<"a">>), SelfRef>> >>)}

JointLog ==
    \E k \in Tasks, args \in JointLogArgs :
        Calls < MaxOps /\ tasks[k].pc = "ready" /\ logWithTimestamp(k, args)

JointSleep == \E k \in Tasks, ms \in SleepArgs : Calls < MaxOps /\ sleep(k, ms)

JointId == \E draw \in JointDraws : Calls < MaxOps /\ GenerateIdCall(draw)

JointFmt == \E state \in JointStates : Calls < MaxOps /\ FormatStateCall(state)

Next == JointLog \/ JointSleep \/ JointId \/ JointFmt

Spec == InitAtEpoch /\ [][Next]_vars

----------------------------------------------------------------------------
(* Properties of logWithTimestamp *)

IsPrefix(p, s) == Len(p) <= Len(s) /\ SubSeq(s, 1, Len(p)) = p

\* What a call is expected to start its line with: the timestamp of the
\* clock at the call, in brackets, a space, the message.
LinePrefix(c) == <<"[">> \o toISOString(c.now) \o <<"]", " ">> \o c.args[1]

\* C1: a call given a data argument, falsy or not, emits data after the
\* message; a call given none emits nothing after the message.
C1_DataAppendedWheneverProvided ==
    /\ Len(console) = Len(logCalls)
    /\ \A i \in 1 .. Len(logCalls) :
          IF Len(logCalls[i].args) = 2
          THEN /\ Len(console[i]) = 2
               /\ console[i][2] = logCalls[i].args[2]
               /\ IsPrefix(LinePrefix(logCalls[i]), console[i][1].v)
          ELSE console[i] = <<Str(LinePrefix(logCalls[i]))>>

\* C2: every call appends exactly one console entry, and the entry begins
\* with the timestamp read during that call, followed by the message.
C2_OneEntryPerCall ==
    /\ Len(console) = Len(logCalls)
    /\ \A i \in 1 .. Len(logCalls) :
          /\ Len(console[i]) \in {1, 2}
          /\ console[i][1].t = "str"
          /\ IsPrefix(LinePrefix(logCalls[i]), console[i][1].v)

\* C2 witness: calls with and without data have been made, at different
\* clock times, after the clock moved on from the process start.
C2_Witness ==
    /\ Len(logCalls) = 2
    /\ Len(logCalls[1].args) = 1 /\ Len(logCalls[2].args) = 2
    /\ Len(console[2]) = 2
    /\ boot < logCalls[1].now /\ logCalls[1].now < logCalls[2].now

----------------------------------------------------------------------------
(* Properties of sleep *)

Elapsed(p) == Ms(0, promises[p].settledAt - promises[p].calledAt)

\* C3: a resolved promise of sleep(ms), ms >= 0, was resolved no earlier
\* than ms milliseconds of the clock after the call.
C3_NotResolvedEarly ==
    \A p \in 1 .. Len(promises) :
        promises[p].state = "resolved" => MsLeq(promises[p].ms, Elapsed(p))

\* C9: under a fairly served timer queue every promise of sleep is
\* eventually resolved, stays resolved, and its resolve is called at most
\* once, also with several sleeps pending together.
C9_EventuallyResolvedOnce ==
    /\ \A p \in 1 .. MaxSleeps :
          (Len(promises) >= p) ~> (Len(promises) >= p /\ promises[p].state = "resolved")
    /\ [](\A p \in 1 .. Len(promises) :
            /\ promises[p].resolveCalls <= 1
            /\ (promises[p].state = "resolved") = (promises[p].resolveCalls = 1))
    /\ [][\A p \in 1 .. Len(promises) :
            promises[p].state = "resolved" => promises'[p].state = "resolved"]_vars

\* C9 witness: two sleeps were pending at the same time, one of them for
\* more than 2^31 - 1 ms, and both have been resolved.
C9_Witness ==
    /\ Len(promises) = 2
    /\ promises[2].calledAt < promises[1].settledAt
    /\ promises[1].state = "resolved" /\ promises[2].state = "resolved"
    /\ \E p \in 1 .. 2 : promises[p].ms.hi > 0
    /\ \E p \in 1 .. 2 : promises[p].ms = Ms(0, 3)

----------------------------------------------------------------------------
(* Properties of interleaved callers *)

\* The characters of a timestamp, in code-unit order.
IsoChars == <<"-", ".", "0", "1", "2", "3", "4", "5", "6", "7", "8", "9", ":", "T", "Z">>

Rank(c) == CHOOSE i \in 1 .. Len(IsoChars) : IsoChars[i] = c

\* a <= b in the order of strings (code unit by code unit).
RECURSIVE StrLeq(_, _)
StrLeq(a, b) ==
    IF a = <<>> THEN TRUE
    ELSE IF b = <<>> THEN FALSE
    ELSE IF Head(a) = Head(b) THEN StrLeq(Tail(a), Tail(b))
    ELSE Rank(Head(a)) < Rank(Head(b))

\* The timestamp printed in a console entry: the 24 characters in the brackets.
EntryTimestamp(e) == SubSeq(e[1].v, 2, 25)

\* C10: with callers interleaving at their awaits, the console entries
\* appear in non-decreasing order of their printed timestamps, and the
\* i-th entry is, whole, what the i-th call emitted.
C10_EntriesInTimestampOrder ==
    /\ Len(console) = Len(logCalls)
    /\ \A i \in 1 .. Len(console) :
          console[i] \in {<<Str(LinePrefix(logCalls[i]))>>,
                          <<Str(LinePrefix(logCalls[i]) \o <<":">>), logCalls[i].args[Len(logCalls[i].args)]>>}
    /\ \A i, j \in 1 .. Len(console) :
          i < j => StrLeq(EntryTimestamp(console[i]), EntryTimestamp(console[j]))

\* C10 witness: two callers have logged, each after being resumed from a
\* sleep, at different times, and the sleep of the later one began before
\* the earlier one logged.
C10_Witness ==
    /\ Len(logCalls) = 2
    /\ logCalls[1].caller # logCalls[2].caller
    /\ logCalls[1].now < logCalls[2].now
    /\ \A i \in 1 .. 2 :
          /\ tasks[logCalls[i].caller].slept # 0
          /\ promises[tasks[logCalls[i].caller].slept].state = "resolved"
          /\ promises[tasks[logCalls[i].caller].slept].settledAt <= logCalls[i].now
    /\ promises[tasks[logCalls[2].caller].slept].calledAt < logCalls[1].now

----------------------------------------------------------------------------
(* Properties of generateId *)

Base36Digits ==
    {"0", "1", "2", "3", "4", "5", "6", "7", "8", "9", "a", "b", "c", "d", "e", "f", "g", "h",
     "i", "j", "k", "l", "m", "n", "o", "p", "q", "r", "s", "t", "u", "v", "w", "x", "y", "z"}

\* C6: whatever the draw, 0 included, every character of the identifier
\* is one of the lowercase base-36 digits 0-9 and a-z.
C6_IdCharactersBase36 ==
    \A c \in 1 .. Len(idCalls) :
        \A i \in 1 .. Len(idCalls[c].id) : idCalls[c].id[i] \in Base36Digits

\* C6 witness: the draw 0 gave the empty identifier, and a draw of more
\* than nine digits gave an identifier of nine characters with a letter.
C6_Witness ==
    /\ Len(idCalls) = 2
    /\ idCalls[1].draw = <<>> /\ idCalls[1].id = <<>>
    /\ Len(idCalls[2].draw) > 9 /\ Len(idCalls[2].id) = 9
    /\ idCalls[2].id[9] = "z"

----------------------------------------------------------------------------
(* JSON.parse, for the round trip of formatState.  The text is read from   *)
(* position i; a result is the value read and the position after it, or   *)
(* SyntaxError.                                                            *)

SyntaxError == [v |-> [t |-> "error"], next |-> 0]

IsError(r) == r.v.t = "error"

\* The character at position i, "" past the end of the text.
At(s, i) == IF i >= 1 /\ i <= Len(s) THEN s[i] ELSE ""

IsDigit(c) == \E d \in 1 .. 10 : DigitChars[d] = c

DigitValue(c) == (CHOOSE d \in 1 .. 10 : DigitChars[d] = c) - 1

RECURSIVE SkipWhitespace(_, _)
SkipWhitespace(s, i) == IF At(s, i) \in {" ", "\n"} THEN SkipWhitespace(s, i + 1) ELSE i

ParseLiteral(s, i, word, value) ==
    IF i + Len(word) - 1 <= Len(s) /\ SubSeq(s, i, i + Len(word) - 1) = word
    THEN [v |-> value, next |-> i + Len(word)]
    ELSE SyntaxError

RECURSIVE ParseDigits(_, _, _)
ParseDigits(s, i, acc) ==
    IF IsDigit(At(s, i)) THEN ParseDigits(s, i + 1, 10 * acc + DigitValue(At(s, i)))
    ELSE [v |-> acc, next |-> i]

ParseNumber(s, i) ==
    LET neg == At(s, i) = "-"
        j == IF neg THEN i + 1 ELSE i
        r == ParseDigits(s, j, 0)
    IN  IF ~IsDigit(At(s, j)) THEN SyntaxError
        ELSE IF neg /\ r.v = 0 THEN [v |-> NegZero, next |-> r.next]
        ELSE [v |-> Num(IF neg THEN 0 - r.v ELSE r.v), next |-> r.next]

\* The characters of a string up to its closing quote, escapes undone.
RECURSIVE ParseChars(_, _, _)
ParseChars(s, i, acc) ==
    LET c == At(s, i)
        e == At(s, i + 1)
    IN  CASE c = "\"" -> [v |-> Str(acc), next |-> i + 1]
          [] c \in {"", "\n"} -> SyntaxError
          [] c = "\\" ->
               (CASE e = "\"" -> ParseChars(s, i + 2, Append(acc, "\""))
                  [] e = "\\" -> ParseChars(s, i + 2, Append(acc, "\\"))
                  [] e = "n" -> ParseChars(s, i + 2, Append(acc, "\n"))
                  [] OTHER -> SyntaxError)
          [] OTHER -> ParseChars(s, i + 1, Append(acc, c))

\* A property set on an object: a key already there keeps its place.
SetProperty(props, key, value) ==
    IF \E i \in 1 .. Len(props) : props[i][1] = key
    THEN [i \in 1 .. Len(props) |-> IF props[i][1] = key THEN <<key, value>> ELSE props[i]]
    ELSE Append(props, <<key, value>>)

RECURSIVE ParseValue(_, _), ParseElements(_, _, _), ParseMembers(_, _, _)
ParseValue(s, i0) ==
    LET i == SkipWhitespace(s, i0)
        c == At(s, i)
    IN  CASE c = "n" -> ParseLiteral(s, i, <<"n", "u", "l", "l">>, Null)
          [] c = "t" -> ParseLiteral(s, i, <<"t", "r", "u", "e">>, Bool(TRUE))
          [] c = "f" -> ParseLiteral(s, i, <<"f", "a", "l", "s", "e">>, Bool(FALSE))
          [] c = "\"" -> ParseChars(s, i + 1, <<>>)
          [] c = "-" \/ IsDigit(c) -> ParseNumber(s, i)
          [] c = "[" -> IF At(s, SkipWhitespace(s, i + 1)) = "]"
                        THEN [v |-> Arr(<<>>), next |-> SkipWhitespace(s, i + 1) + 1]
                        ELSE ParseElements(s, i + 1, <<>>)
          [] c = "{" -> IF At(s, SkipWhitespace(s, i + 1)) = "}"
                        THEN [v |-> Obj(<<>>), next |-> SkipWhitespace(s, i + 1) + 1]
                        ELSE ParseMembers(s, i + 1, <<>>)
          [] OTHER -> SyntaxError

ParseElements(s, i, acc) ==
    LET r == ParseValue(s, i)
        j == SkipWhitespace(s, r.next)
    IN  IF IsError(r) THEN SyntaxError
        ELSE CASE At(s, j) = "," -> ParseElements(s, j + 1, Append(acc, r.v))
               [] At(s, j) = "]" -> [v |-> Arr(Append(acc, r.v)), next |-> j + 1]
               [] OTHER -> SyntaxError

ParseMembers(s, i, acc) ==
    LET j == SkipWhitespace(s, i)
        key == ParseChars(s, j + 1, <<>>)
        k == SkipWhitespace(s, key.next)
        r == ParseValue(s, k + 1)
        m == SkipWhitespace(s, r.next)
    IN  IF At(s, j) # "\"" \/ IsError(key) THEN SyntaxError
        ELSE IF At(s, k) # ":" THEN SyntaxError
        ELSE IF IsError(r) THEN SyntaxError
        ELSE CASE At(s, m) = "," -> ParseMembers(s, m + 1, SetProperty(acc, key.v.v, r.v))
               [] At(s, m) = "}" -> [v |-> Obj(SetProperty(acc, key.v.v, r.v)), next |-> m + 1]
               [] OTHER -> SyntaxError

\* JSON.parse(text): the value, when the whole text is one value.
JSONparse(text) ==
    LET r == ParseValue(text, 1)
    IN  IF IsError(r) THEN SyntaxError.v
        ELSE IF SkipWhitespace(text, r.next) = Len(text) + 1 THEN r.v
        ELSE SyntaxError.v

\* Null, booleans, numbers, strings, and the arrays and objects built from them.
RECURSIVE IsJsonRepresentable(_)
IsJsonRepresentable(x) ==
    CASE x.t \in {"null", "bool", "num", "negzero", "str"} -> TRUE
      [] x.t = "arr" -> \A i \in 1 .. Len(x.v) : IsJsonRepresentable(x.v[i])
      [] x.t = "obj" -> \A i \in 1 .. Len(x.v) : IsJsonRepresentable(x.v[i][2])
      [] OTHER -> FALSE

\* Deep equality: arrays element by element, objects property by property
\* whatever the order of the properties, numbers as === compares them
\* (so that -0 equals 0).
RECURSIVE DeepEqual(_, _)
DeepEqual(x, y) ==
    \/ /\ x.t \in {"num", "negzero"} /\ y.t \in {"num", "negzero"}
       /\ (IF x.t = "num" THEN x.v ELSE 0) = (IF y.t = "num" THEN y.v ELSE 0)
    \/ /\ x.t = y.t
       /\ x.t # "num"
       /\ CASE x.t = "arr" ->
                 /\ Len(x.v) = Len(y.v)
                 /\ \A i \in 1 .. Len(x.v) : DeepEqual(x.v[i], y.v[i])
            [] x.t = "obj" ->
                 /\ Len(x.v) = Len(y.v)
                 /\ \A i \in 1 .. Len(x.v) : \E j \in 1 .. Len(y.v) :
                       x.v[i][1] = y.v[j][1] /\ DeepEqual(x.v[i][2], y.v[j][2])
            [] OTHER -> x = y

----------------------------------------------------------------------------
(* Properties of formatState *)

\* C4: for a JSON-representable value, formatState returns a text that
\* JSON.parse reads back as a value deep-equal to it.
C4_FormatStateRoundTrips ==
    \A c \in 1 .. Len(fmtCalls) :
        IsJsonRepresentable(fmtCalls[c].arg) =>
            /\ fmtCalls[c].outcome = "return"
            /\ fmtCalls[c].result.t = "str"
            /\ DeepEqual(JSONparse(fmtCalls[c].result.v), fmtCalls[c].arg)

\* C4 witness: formatState has returned the text of an object of two
\* properties, one a nested array and one an object holding a string.
C4_Witness ==
    /\ Len(fmtCalls) = 1
    /\ fmtCalls[1].arg = Obj(<< <<(<<"a">>), Arr(<<Arr(<<Bool(TRUE)>>)>>)>>,
                               <<(<<"b">>), Obj(<< <<(<<"a">>), Str(<<"a">>)>> >>)>> >>)
    /\ fmtCalls[1].outcome = "return"
    /\ Len(fmtCalls[1].result.v) > 20

\* C5: no helper has an error outcome: no call throws and no promise of
\* sleep is rejected.
C5_NoErrorOutcome ==
    /\ \A c \in 1 .. Len(logCalls) : logCalls[c].outcome # "throw"
    /\ \A c \in 1 .. Len(idCalls) : idCalls[c].outcome # "throw"
    /\ \A c \in 1 .. Len(fmtCalls) : fmtCalls[c].outcome # "throw"
    /\ \A p \in 1 .. Len(promises) : promises[p].state # "rejected"

----------------------------------------------------------------------------
(* Frame of the helpers *)

\* C7: sleep, generateId and formatState leave the console output as it
\* is, and so does every step that is not a call of logWithTimestamp; a
\* call of logWithTimestamp only appends to it; formatState and
\* logWithTimestamp leave the value passed to them as it was.
C7_OnlyLogWritesConsole ==
    [][/\ (Len(promises') > Len(promises) \/ Len(idCalls') > Len(idCalls) \/ fmtCalls' # fmtCalls)
            => console' = console
       /\ Len(logCalls') = Len(logCalls) => console' = console
       /\ Len(logCalls') > Len(logCalls)
            => /\ Len(console') >= Len(console)
               /\ SubSeq(console', 1, Len(console)) = console
               /\ \A i \in (Len(console) + 1) .. Len(console') :
                     Len(console'[i]) = 2 => console'[i][2] = logCalls'[Len(logCalls')].args[2]
       /\ \A c \in 1 .. Len(fmtCalls') : fmtCalls'[c].argAfter = fmtCalls'[c].arg
      ]_vars

\* C7 witness: all four helpers have been called, logWithTimestamp with
\* an object as data, and the console holds the one entry of that call.
C7_Witness ==
    /\ Len(logCalls) = 1 /\ Len(console) = 1
    /\ Len(console[1]) = 2 /\ console[1][2] = Obj(<<>>)
    /\ Len(promises) = 1
    /\ Len(idCalls) = 1
    /\ Len(fmtCalls) = 1 /\ fmtCalls[1].outcome = "return"

============================================================================
